---- MODULE Spec2Model ----
(***************************************************************************)
(* Capturehouse landing page (src/App.tsx): the stateful parts of the page *)
(* as a state machine.  ContactForm (formData, the WhatsApp deep link),    *)
(* RevealOnScroll (IntersectionObserver driven visibility), CustomCursor   *)
(* (mouse tracking and hover state), FAQItem (accordion toggle) and Navbar *)
(* (scrolled flag, mobile menu).                                           *)
(*                                                                         *)
(* Strings are sequences of Unicode code points.  Field values are         *)
(* well-formed text (no lone surrogate halves), which is what a text       *)
(* control holds after typing or pasting.                                  *)
(***************************************************************************)
EXTENDS Integers, Sequences, FiniteSets, TLC

VARIABLES
    formData,       \* ContactForm: React state, a record keyed by field name
    opened,         \* sequence of window.open calls made so far: [url, target]
    written,        \* history: last value written to each field by a change event
    submits,        \* history: number of submit events handled
    changedSinceSubmit, \* history: a change event was handled after the last submit
    revealMounted,  \* RevealOnScroll i is mounted (its effect has run, no cleanup yet)
    isVisible,      \* RevealOnScroll i: React state isVisible
    active,         \* RevealOnScroll i: the committed div carries the class "active"
    observing,      \* observer of i has the div among its observation targets
    prevInter,      \* observer of i: previousIsIntersecting of the target ("none" at first)
    queued,         \* observer of i: queued entries (isIntersecting of each), oldest first
    inView,         \* environment: the div of i intersects the viewport by the threshold
    reported,       \* history: a callback of i got a batch holding an intersecting entry
    firstHit,       \* history: a callback of i got a batch whose first entry intersects
    stateChanges,   \* history: number of callbacks of i that changed isVisible
    lateSets,       \* history: a callback of i called setIsVisible after the unmount
    dotPresent,     \* environment: index.html holds a .cursor-dot element
    outlinePresent, \* environment: index.html holds a .cursor-outline element
    isTouchDevice,  \* environment: 'ontouchstart' in window || maxTouchPoints > 0
    cursorPhase,    \* CustomCursor: "initial", "mounted" or "unmounted"
    listeners,      \* event listeners registered and not removed: <<target, type>>
    hasCleanup,     \* the effect of CustomCursor returned a cleanup function
    removed,        \* history: listeners removed by the cleanup
    registered,     \* history: listeners registered by the effect
    dotLeft,        \* dot.style.left, a string ("" until first set)
    dotTop,         \* dot.style.top
    outlineAnim,    \* keyframe of the last outline.animate() call, <<left, top>>
    hovered,        \* outline.classList contains 'hovered'
    pointer,        \* environment: position <<x, y>> of the mouse pointer
    sawHover,       \* history: addHoverState or removeHoverState has run
    movedSinceMount, \* history: the pointer moved while CustomCursor was mounted
    faqIsOpen,      \* FAQItem j: React state isOpen
    faqRendered,    \* FAQItem j: the value of isOpen in the committed render
    faqClicks,      \* history: number of clicks on the button of item j
    scrolled,       \* Navbar: React state scrolled
    mobileMenuOpen, \* Navbar: React state mobileMenuOpen
    scrollY,        \* environment: window.scrollY
    scrollPending,  \* environment: a scroll event is waiting to be dispatched
    scrollTarget,   \* the target of the last scrollIntoView / scrollTo call
    glassNav,       \* Navbar: the committed <nav> carries the class "glass-nav"
    overlayShown,   \* Navbar: the committed overlay carries "translate-x-0"
    navEvent,       \* history: the last Navbar click handler run, <<handler, input>>
    scrollLog,      \* history: "none" until handleScroll has run, then "handled",
                    \* and "scrolled" once it has set scrolled to true
    menuSeen        \* history: the menu as the last scrollToSection call found it,
                    \* "open" or "closed" ("none" before the first call)

formVars == <<formData, opened, written, submits, changedSinceSubmit>>

cursorVars == <<dotPresent, outlinePresent, isTouchDevice, cursorPhase, listeners,
                hasCleanup, removed, registered, dotLeft, dotTop, outlineAnim, hovered,
                pointer, sawHover, movedSinceMount>>

faqVars == <<faqIsOpen, faqRendered, faqClicks>>

navVars == <<scrolled, mobileMenuOpen, scrollY, scrollPending, scrollTarget,
             glassNav, overlayShown, navEvent, scrollLog, menuSeen>>

revealVars == <<revealMounted, isVisible, active, observing, prevInter, queued,
                inView, reported, firstHit, stateChanges, lateSets>>

(***************************************************************************)
(* Bounds                                                                  *)
(***************************************************************************)
MaxOpens == 2

\* RevealOnScroll components on the page
NumReveal == 2

\* entries an observer can hold between two deliveries
MaxBatch == 2

\* the viewport is the grid 0..MaxX by 0..MaxY of pointer positions
MaxX == 3

MaxY == 1

\* clicks counted on one FAQ item
MaxClicks == 3

(***************************************************************************)
(* Text constants of ContactForm.handleSubmit, as code points              *)
(***************************************************************************)
\* "5519999592852"
phoneNumber == <<53, 53, 49, 57, 57, 57, 57, 53, 57, 50, 56, 53, 50>>

\* "https://wa.me/"
WaMePrefix == <<104, 116, 116, 112, 115, 58, 47, 47, 119, 97, 46, 109, 101, 47>>

\* "?text="
TextParam == <<63, 116, 101, 120, 116, 61>>

\* "*Nova Aplicação via Site Capturehouse*\n\n"
HeaderLine == <<42, 78, 111, 118, 97, 32, 65, 112, 108, 105, 99, 97, 231, 227, 111, 32, 118, 105, 97, 32, 83, 105, 116, 101, 32, 67, 97, 112, 116, 117, 114, 101, 104, 111, 117, 115, 101, 42, 10, 10>>

\* "*Nome:* "
NomeLabel == <<42, 78, 111, 109, 101, 58, 42, 32>>

\* "\n*Instagram:* "  (the newline closes the previous template line)
InstagramLabel == <<10, 42, 73, 110, 115, 116, 97, 103, 114, 97, 109, 58, 42, 32>>

\* "\n*Atuação:* "
AtuacaoLabel == <<10, 42, 65, 116, 117, 97, 231, 227, 111, 58, 42, 32>>

\* "\n*Objetivo:* "
ObjetivoLabel == <<10, 42, 79, 98, 106, 101, 116, 105, 118, 111, 58, 42, 32>>

(***************************************************************************)
(* Values a user can put in each control.  The three <input type="text">   *)
(* controls never hold a newline; the <textarea> can.                      *)
(***************************************************************************)
\* "", "a&b=c", "é #?"
NameValues == {<<>>, <<97, 38, 98, 61, 99>>, <<233, 32, 35, 63>>}

\* "", "@a_b%"
InstagramValues == {<<>>, <<64, 97, 95, 98, 37>>}

\* "", "x+y/" followed by U+1F600
NicheValues == {<<>>, <<120, 43, 121, 47, 128512>>}

\* "", "a\nb", "€1 ~*'()!"
ObjectiveValues == {<<>>, <<97, 10, 98>>, <<8364, 49, 32, 126, 42, 39, 40, 41, 33>>}

FieldNames == {"name", "instagram", "niche", "objective"}

ControlValues(field) ==
    CASE field = "name"      -> NameValues
      [] field = "instagram" -> InstagramValues
      [] field = "niche"     -> NicheValues
      [] field = "objective" -> ObjectiveValues

(***************************************************************************)
(* encodeURIComponent / decodeURIComponent                                 *)
(***************************************************************************)
\* variant: the set encodeURI leaves alone, which also holds ; / ? : @ & = + $ , #
UriUnreservedOfEncodeURI ==
    (65..90) \cup (97..122) \cup (48..57)
        \cup {45, 95, 46, 33, 126, 42, 39, 40, 41}
        \cup {59, 47, 63, 58, 64, 38, 61, 43, 36, 44, 35}

\* A-Z a-z 0-9 and - _ . ! ~ * ' ( )
UriUnreserved ==
    (65..90) \cup (97..122) \cup (48..57) \cup {45, 95, 46, 33, 126, 42, 39, 40, 41}

\* the UTF-8 octets of one code point
Utf8Octets(cp) ==
    IF cp < 128 THEN <<cp>>
    ELSE IF cp < 2048 THEN <<192 + (cp \div 64), 128 + (cp % 64)>>
    ELSE IF cp < 65536 THEN
        <<224 + (cp \div 4096), 128 + ((cp \div 64) % 64), 128 + (cp % 64)>>
    ELSE
        <<240 + (cp \div 262144), 128 + ((cp \div 4096) % 64),
          128 + ((cp \div 64) % 64), 128 + (cp % 64)>>

\* one upper-case hexadecimal digit, as a code point
HexDigit(n) == IF n < 10 THEN 48 + n ELSE 55 + n

\* "%XY" for one octet
PercentOctet(b) == <<37, HexDigit(b \div 16), HexDigit(b % 16)>>

EncodeCodePoint(cp) ==
    IF cp \in UriUnreserved
    THEN <<cp>>
    ELSE LET bytes == Utf8Octets(cp)
         IN  [i \in 1..(3 * Len(bytes)) |-> PercentOctet(bytes[(i + 2) \div 3])[((i - 1) % 3) + 1]]

\* the encodings of str[lo..hi], one after the other
RECURSIVE EncodeRange(_, _, _)
EncodeRange(str, lo, hi) ==
    IF lo > hi THEN <<>>
    ELSE IF lo = hi THEN EncodeCodePoint(str[lo])
    ELSE LET mid == (lo + hi) \div 2
         IN  EncodeRange(str, lo, mid) \o EncodeRange(str, mid + 1, hi)

encodeURIComponent(str) == EncodeRange(str, 1, Len(str))

\* value of one hexadecimal digit, -1 when the code point is not one
HexValue(c) ==
    IF c \in 48..57 THEN c - 48
    ELSE IF c \in 65..70 THEN c - 55
    ELSE IF c \in 97..102 THEN c - 87
    ELSE -1

\* position i of str starts a well-formed escape %XY
IsEscape(str, i) ==
    /\ str[i] = 37
    /\ i + 2 <= Len(str)
    /\ HexValue(str[i + 1]) >= 0
    /\ HexValue(str[i + 2]) >= 0

\* position i of str is one of the two digits of an escape
InEscape(str, i) ==
    \/ i > 1 /\ IsEscape(str, i - 1)
    \/ i > 2 /\ IsEscape(str, i - 2)

\* the octets carried by an encoded text: %XY gives one octet, any other
\* character stands for itself
UnescapeOctets(str) ==
    LET starts == SelectSeq([i \in 1..Len(str) |-> i], LAMBDA i : ~InEscape(str, i))
    IN  [k \in 1..Len(starts) |->
            IF IsEscape(str, starts[k])
            THEN 16 * HexValue(str[starts[k] + 1]) + HexValue(str[starts[k] + 2])
            ELSE str[starts[k]]]

\* octet b is a UTF-8 continuation octet 10xxxxxx
IsContinuation(b) == b \in 128..191

\* number of octets of the UTF-8 sequence that starts with octet b
Utf8Length(b) ==
    IF b < 128 THEN 1 ELSE IF b < 224 THEN 2 ELSE IF b < 240 THEN 3 ELSE 4

Utf8CodePoint(bytes) ==
    CASE Len(bytes) = 1 -> bytes[1]
      [] Len(bytes) = 2 -> (bytes[1] - 192) * 64 + (bytes[2] - 128)
      [] Len(bytes) = 3 ->
            (bytes[1] - 224) * 4096 + (bytes[2] - 128) * 64 + (bytes[3] - 128)
      [] OTHER ->
            (bytes[1] - 240) * 262144 + (bytes[2] - 128) * 4096
                + (bytes[3] - 128) * 64 + (bytes[4] - 128)

\* the octet sequence bytes is well-formed UTF-8: every lead octet is
\* followed by exactly the continuation octets it announces
IsUtf8(bytes) ==
    \A i \in 1..Len(bytes) :
        IF IsContinuation(bytes[i])
        THEN \E j \in 1..3 :
                /\ i - j >= 1
                /\ ~IsContinuation(bytes[i - j])
                /\ Utf8Length(bytes[i - j]) > j
                /\ \A k \in 1..(j - 1) : IsContinuation(bytes[i - k])
        ELSE /\ bytes[i] < 248
             /\ i + Utf8Length(bytes[i]) - 1 <= Len(bytes)
             /\ \A k \in 1..(Utf8Length(bytes[i]) - 1) : IsContinuation(bytes[i + k])

Utf8Decode(bytes) ==
    LET leads == SelectSeq([i \in 1..Len(bytes) |-> i],
                           LAMBDA i : ~IsContinuation(bytes[i]))
    IN  [k \in 1..Len(leads) |->
            Utf8CodePoint(SubSeq(bytes, leads[k],
                                 leads[k] + Utf8Length(bytes[leads[k]]) - 1))]

\* decodeURIComponent throws URIError on a '%' that starts no escape and on
\* octets that are not UTF-8
decodeURIComponent(str) ==
    IF \E i \in 1..Len(str) : str[i] = 37 /\ ~IsEscape(str, i)
    THEN "URIError"
    ELSE IF ~IsUtf8(UnescapeOctets(str)) THEN "URIError"
    ELSE Utf8Decode(UnescapeOctets(str))

(***************************************************************************)
(* ContactForm                                                             *)
(***************************************************************************)
\* useState({name: "", instagram: "", niche: "", objective: ""})
InitialFormData == [f \in FieldNames |-> <<>>]

\* variant: the other fields are not carried over
UpdateFormDataResets(prev, name, value) ==
    [k \in (DOMAIN prev) \cup {name} |-> IF k = name THEN value ELSE <<>>]

\* prev => ({ ...prev, [name]: value })
UpdateFormData(prev, name, value) ==
    [k \in (DOMAIN prev) \cup {name} |-> IF k = name THEN value ELSE prev[k]]

\* variant: the Instagram and Atuação lines carry each other's value
BuildMessageSwapped(fd) ==
    HeaderLine
        \o NomeLabel \o fd.name
        \o InstagramLabel \o fd.niche
        \o AtuacaoLabel \o fd.instagram
        \o ObjetivoLabel \o fd.objective

\* the template literal of handleSubmit, before encoding
BuildMessage(fd) ==
    HeaderLine
        \o NomeLabel \o fd.name
        \o InstagramLabel \o fd.instagram
        \o AtuacaoLabel \o fd.niche
        \o ObjetivoLabel \o fd.objective

\* `https://wa.me/${phoneNumber}?text=${message}`
BuildLink(fd) ==
    WaMePrefix \o phoneNumber \o TextParam \o encodeURIComponent(BuildMessage(fd))

\* variant: only the name control is required
FormIsValidNameOnly(fd) == fd["name"] # <<>>

\* every control carries the `required` attribute: the browser dispatches
\* the submit event only when no control is empty
FormIsValid(fd) == \A f \in FieldNames : fd[f] # <<>>

\* onChange={handleChange} on the control called `field`; React flushes the
\* update and re-renders before the next event is dispatched
HandleChange(field, value) ==
    /\ formData' = UpdateFormData(formData, field, value)
    /\ written' = [written EXCEPT ![field] = value]
    /\ changedSinceSubmit' = TRUE
    /\ UNCHANGED <<opened, submits>>
    /\ UNCHANGED <<revealVars, cursorVars, faqVars, navVars>>

\* variant: the link is opened twice
HandleSubmitTwice ==
    /\ FormIsValid(formData)
    /\ Len(opened) < MaxOpens
    /\ opened' = opened \o <<[url |-> BuildLink(formData), target |-> "_blank"],
                              [url |-> BuildLink(formData), target |-> "_blank"]>>
    /\ submits' = submits + 1
    /\ changedSinceSubmit' = FALSE
    /\ UNCHANGED <<formData, written>>
    /\ UNCHANGED <<revealVars, cursorVars, faqVars, navVars>>

\* variant: the form is reset after the link is opened
HandleSubmitResets ==
    /\ FormIsValid(formData)
    /\ Len(opened) < MaxOpens
    /\ opened' = Append(opened, [url |-> BuildLink(formData), target |-> "_blank"])
    /\ submits' = submits + 1
    /\ changedSinceSubmit' = FALSE
    /\ formData' = InitialFormData
    /\ UNCHANGED written
    /\ UNCHANGED <<revealVars, cursorVars, faqVars, navVars>>

\* onSubmit={handleSubmit}
HandleSubmit ==
    /\ FormIsValid(formData)
    /\ Len(opened) < MaxOpens
    /\ opened' = Append(opened, [url |-> BuildLink(formData), target |-> "_blank"])
    /\ submits' = submits + 1
    /\ changedSinceSubmit' = FALSE
    /\ UNCHANGED <<formData, written>>
    /\ UNCHANGED <<revealVars, cursorVars, faqVars, navVars>>

InitForm ==
    /\ formData = InitialFormData
    /\ opened = <<>>
    /\ written = [f \in FieldNames |-> <<>>]
    /\ submits = 0
    /\ changedSinceSubmit = FALSE

(***************************************************************************)
(* RevealOnScroll                                                          *)
(***************************************************************************)
RevealIds == 1..NumReveal

IntersectionOf(b) == IF b THEN "yes" ELSE "no"

\* the observer processes the target: an entry is queued when isIntersecting
\* differs from the previous observation (always at the first one)
UpdateIntersection(i) ==
    /\ observing[i]
    /\ prevInter[i] # IntersectionOf(inView[i])
    /\ Len(queued[i]) < MaxBatch
    /\ queued' = [queued EXCEPT ![i] = Append(@, inView[i])]
    /\ prevInter' = [prevInter EXCEPT ![i] = IntersectionOf(inView[i])]
    /\ UNCHANGED <<revealMounted, isVisible, active, observing, inView,
                   reported, firstHit, stateChanges, lateSets>>
    /\ UNCHANGED <<formVars, cursorVars, faqVars, navVars>>

\* scrolling or layout moves the div of i into or out of the viewport
ViewportChange(i) ==
    /\ inView' = [inView EXCEPT ![i] = ~@]
    /\ UNCHANGED <<revealMounted, isVisible, active, observing, prevInter,
                   queued, reported, firstHit, stateChanges, lateSets>>
    /\ UNCHANGED <<formVars, cursorVars, faqVars, navVars>>

\* variant: the state follows every entry and the observer is kept
RevealCallbackFollows(i, entries) ==
    LET entry == entries[1]
    IN  /\ isVisible' = [isVisible EXCEPT ![i] = IF revealMounted[i] THEN entry ELSE @]
        /\ UNCHANGED <<observing, prevInter>>

\* variant: the observer is not disconnected
RevealCallbackKeepsObserver(i, entries) ==
    LET entry == entries[1]
    IN  /\ isVisible' = [isVisible EXCEPT ![i] = IF revealMounted[i] /\ entry THEN TRUE ELSE @]
        /\ UNCHANGED <<observing, prevInter>>

\* variant: one isVisible and one observer shared by all components
RevealCallbackShared(i, entries) ==
    LET entry == entries[1]
    IN  IF entry
        THEN /\ isVisible' = [k \in RevealIds |-> IF revealMounted[k] THEN TRUE ELSE isVisible[k]]
             /\ observing' = [k \in RevealIds |-> FALSE]
             /\ prevInter' = [k \in RevealIds |-> "none"]
        ELSE UNCHANGED <<isVisible, observing, prevInter>>

\* ([entry]) => { if (entry.isIntersecting) { setIsVisible(true);
\* observer.disconnect(); } } applied to a batch of entries.  setIsVisible
\* of an unmounted component changes nothing.
RevealCallback(i, entries) ==
    LET entry == entries[1]
    IN  IF entry
        THEN /\ isVisible' = [isVisible EXCEPT ![i] = IF revealMounted[i] THEN TRUE ELSE @]
             /\ observing' = [observing EXCEPT ![i] = FALSE]
             /\ prevInter' = [prevInter EXCEPT ![i] = "none"]
        ELSE UNCHANGED <<isVisible, observing, prevInter>>

\* the browser delivers the queued entries of the observer of i to its
\* callback
NotifyObserver(i) ==
    /\ queued[i] # <<>>
    /\ queued' = [queued EXCEPT ![i] = <<>>]
    /\ RevealCallback(i, queued[i])
    /\ reported' = [reported EXCEPT ![i] =
            @ \/ (revealMounted[i] /\ \E k \in 1..Len(queued[i]) : queued[i][k])]
    /\ firstHit' = [firstHit EXCEPT ![i] = @ \/ (revealMounted[i] /\ queued[i][1])]
    /\ stateChanges' = [stateChanges EXCEPT ![i] =
            IF isVisible'[i] # isVisible[i] THEN @ + 1 ELSE @]
    /\ lateSets' = [lateSets EXCEPT ![i] = @ \/ (~revealMounted[i] /\ queued[i][1])]
    /\ UNCHANGED <<revealMounted, active, inView>>
    /\ UNCHANGED <<formVars, cursorVars, faqVars, navVars>>

\* React commits the render that follows setIsVisible:
\* className={`reveal ${isVisible ? "active" : ""} ${className}`}
RenderReveal(i) ==
    /\ revealMounted[i]
    /\ active[i] # isVisible[i]
    /\ active' = [active EXCEPT ![i] = isVisible[i]]
    /\ UNCHANGED <<revealMounted, isVisible, observing, prevInter, queued,
                   inView, reported, firstHit, stateChanges, lateSets>>
    /\ UNCHANGED <<formVars, cursorVars, faqVars, navVars>>

\* the effect's cleanup, () => observer.disconnect().  Whether entries that
\* are already queued are still delivered after disconnect() differs between
\* browsers, so both outcomes are kept.
UnmountReveal(i) ==
    /\ revealMounted[i]
    /\ revealMounted' = [revealMounted EXCEPT ![i] = FALSE]
    /\ observing' = [observing EXCEPT ![i] = FALSE]
    /\ prevInter' = [prevInter EXCEPT ![i] = "none"]
    /\ \E keep \in BOOLEAN :
          queued' = [queued EXCEPT ![i] = IF keep THEN @ ELSE <<>>]
    /\ UNCHANGED <<isVisible, active, inView, reported, firstHit, stateChanges, lateSets>>
    /\ UNCHANGED <<formVars, cursorVars, faqVars, navVars>>

\* after the first render and the effect: useState(false), the observer is
\* created and observes ref.current; the div may or may not be in the
\* viewport when the page loads
InitRevealIn(view) ==
    /\ revealMounted = [i \in RevealIds |-> TRUE]
    /\ isVisible = [i \in RevealIds |-> FALSE]
    /\ active = [i \in RevealIds |-> FALSE]
    /\ observing = [i \in RevealIds |-> TRUE]
    /\ prevInter = [i \in RevealIds |-> "none"]
    /\ queued = [i \in RevealIds |-> <<>>]
    /\ inView = view
    /\ reported = [i \in RevealIds |-> FALSE]
    /\ firstHit = [i \in RevealIds |-> FALSE]
    /\ stateChanges = [i \in RevealIds |-> 0]
    /\ lateSets = [i \in RevealIds |-> FALSE]

InitReveal == \E view \in [RevealIds -> BOOLEAN] : InitRevealIn(view)

(***************************************************************************)
(* CustomCursor                                                            *)
(***************************************************************************)
\* elements of the rendered page that matter for the hover state: the footer,
\* one of its <li class="... interactive"> items, the <a> inside that item,
\* and the submit <button class="... interactive"> of the form
DomElements ==
    { [id |-> "footer", tag |-> "footer", interactive |-> FALSE],
      [id |-> "li",     tag |-> "li",     interactive |-> TRUE],
      [id |-> "a",      tag |-> "a",      interactive |-> FALSE],
      [id |-> "submit", tag |-> "button", interactive |-> TRUE] }

\* pointer positions covered by each element: the <a> lies inside the <li>,
\* the <li> inside the footer
Cells(id) ==
    CASE id = "footer" -> {<<0, 0>>, <<1, 0>>, <<2, 0>>}
      [] id = "li"     -> {<<1, 0>>, <<2, 0>>}
      [] id = "a"      -> {<<2, 0>>}
      [] id = "submit" -> {<<3, 1>>}

Positions == (0..MaxX) \X (0..MaxY)

\* the pointer has not been over the page yet
NoPointer == <<-1, -1>>

\* document.querySelectorAll('a, button, input, textarea, .interactive')
interactiveElements ==
    { m.id : m \in { e \in DomElements :
                         \/ e.tag \in {"a", "button", "input", "textarea"}
                         \/ e.interactive } }

\* the elements the position p is inside of
Under(p) == { m.id : m \in { e \in DomElements : p \in Cells(e.id) } }

\* decimal digits of a natural number, as code points
RECURSIVE ToDecimal(_)
ToDecimal(n) ==
    IF n < 10 THEN <<48 + n>> ELSE ToDecimal(n \div 10) \o <<48 + (n % 10)>>

\* `${pos}px`
Px(pos) == ToDecimal(pos) \o <<112, 120>>

\* variant: only the dot is looked for
CursorEnabledDotOnly == dotPresent /\ ~isTouchDevice

\* variant: no touch check
CursorEnabledIgnoresTouch == dotPresent /\ outlinePresent

\* if (!dot || !outline) return;  if (isTouchDevice) return;
CursorEnabled == dotPresent /\ outlinePresent /\ ~isTouchDevice

\* the listeners the effect registers
EffectListeners ==
    {<<"window", "mousemove">>}
        \cup { <<m, "mouseenter">> : m \in interactiveElements }
        \cup { <<n, "mouseleave">> : n \in interactiveElements }

\* the effect of CustomCursor, run once after the first render
MountCursor ==
    /\ cursorPhase = "initial"
    /\ cursorPhase' = "mounted"
    /\ IF CursorEnabled
       THEN /\ listeners' = listeners \cup EffectListeners
            /\ registered' = registered \cup EffectListeners
            /\ hasCleanup' = TRUE
       ELSE UNCHANGED <<listeners, registered, hasCleanup>>
    /\ UNCHANGED <<dotPresent, outlinePresent, isTouchDevice, removed, dotLeft,
                   dotTop, outlineAnim, hovered, pointer, sawHover, movedSinceMount>>
    /\ UNCHANGED <<formVars, revealVars, faqVars, navVars>>

\* variant: the cleanup removes the window listener only
UnmountCursorWindowOnly ==
    /\ cursorPhase = "mounted"
    /\ cursorPhase' = "unmounted"
    /\ IF hasCleanup
       THEN /\ listeners' = listeners \ {<<"window", "mousemove">>}
            /\ removed' = removed \cup (listeners \cap {<<"window", "mousemove">>})
       ELSE UNCHANGED <<listeners, removed>>
    /\ UNCHANGED <<dotPresent, outlinePresent, isTouchDevice, hasCleanup, registered,
                   dotLeft, dotTop, outlineAnim, hovered, pointer, sawHover,
                   movedSinceMount>>
    /\ UNCHANGED <<formVars, revealVars, faqVars, navVars>>

\* the cleanup returned by the effect, when there is one
UnmountCursor ==
    /\ cursorPhase = "mounted"
    /\ cursorPhase' = "unmounted"
    /\ IF hasCleanup
       THEN /\ listeners' = listeners \ EffectListeners
            /\ removed' = removed \cup (listeners \cap EffectListeners)
       ELSE UNCHANGED <<listeners, removed>>
    /\ UNCHANGED <<dotPresent, outlinePresent, isTouchDevice, hasCleanup, registered,
                   dotLeft, dotTop, outlineAnim, hovered, pointer, sawHover,
                   movedSinceMount>>
    /\ UNCHANGED <<formVars, revealVars, faqVars, navVars>>

\* variant: the two coordinates are exchanged
MoveCursorSwapped(posX, posY) ==
    /\ IF dotPresent
       THEN dotLeft' = Px(posY) /\ dotTop' = Px(posX)
       ELSE UNCHANGED <<dotLeft, dotTop>>
    /\ IF outlinePresent
       THEN outlineAnim' = <<Px(posY), Px(posX)>>
       ELSE UNCHANGED outlineAnim

\* moveCursor(e) with e.clientX = posX and e.clientY = posY
MoveCursor(posX, posY) ==
    /\ IF dotPresent
       THEN dotLeft' = Px(posX) /\ dotTop' = Px(posY)
       ELSE UNCHANGED <<dotLeft, dotTop>>
    /\ IF outlinePresent
       THEN outlineAnim' = <<Px(posX), Px(posY)>>
       ELSE UNCHANGED outlineAnim

\* the class list after the mouseleave listeners of the elements in `left`
\* and then the mouseenter listeners of the elements in `entered` have run
HoverAfter(left, entered) ==
    IF ~outlinePresent THEN hovered             \* outline?.classList
    ELSE IF \E m \in entered : <<m, "mouseenter">> \in listeners
    THEN TRUE                                   \* addHoverState
    ELSE IF \E n \in left : <<n, "mouseleave">> \in listeners
    THEN FALSE                                  \* removeHoverState
    ELSE hovered

\* some mouseenter or mouseleave listener runs for these elements
HoverListenerRuns(left, entered) ==
    \/ \E m \in entered : <<m, "mouseenter">> \in listeners
    \/ \E n \in left : <<n, "mouseleave">> \in listeners

\* the pointer moves to <<x, y>>: the browser dispatches mouseleave to the
\* elements it left, mouseenter to the elements it entered (neither event
\* bubbles), and mousemove to the window
MouseMove(x, y) ==
    LET left    == Under(pointer) \ Under(<<x, y>>)
        entered == Under(<<x, y>>) \ Under(pointer)
    IN  /\ <<x, y>> # pointer
        /\ pointer' = <<x, y>>
        /\ hovered' = HoverAfter(left, entered)
        /\ sawHover' = (sawHover \/ HoverListenerRuns(left, entered))
        /\ IF <<"window", "mousemove">> \in listeners
           THEN MoveCursor(x, y)
           ELSE UNCHANGED <<dotLeft, dotTop, outlineAnim>>
        /\ movedSinceMount' = (movedSinceMount \/ cursorPhase = "mounted")
        /\ UNCHANGED <<dotPresent, outlinePresent, isTouchDevice, cursorPhase,
                       listeners, hasCleanup, removed, registered>>
        /\ UNCHANGED <<formVars, revealVars, faqVars, navVars>>

\* before the effect has run; env gives the three facts about the document
\* and the device
InitCursorIn(env) ==
    /\ dotPresent = env[1]
    /\ outlinePresent = env[2]
    /\ isTouchDevice = env[3]
    /\ cursorPhase = "initial"
    /\ listeners = {}
    /\ hasCleanup = FALSE
    /\ removed = {}
    /\ registered = {}
    /\ dotLeft = <<>>
    /\ dotTop = <<>>
    /\ outlineAnim = <<>>
    /\ hovered = FALSE
    /\ pointer = NoPointer
    /\ sawHover = FALSE
    /\ movedSinceMount = FALSE

\* a desktop browser showing the shipped index.html
InitCursor == InitCursorIn(<<TRUE, TRUE, FALSE>>)

\* a desktop browser showing the shipped index.html, after the effect of
\* CustomCursor has run
InitCursorMounted ==
    /\ dotPresent = TRUE
    /\ outlinePresent = TRUE
    /\ isTouchDevice = FALSE
    /\ cursorPhase = "mounted"
    /\ listeners = EffectListeners
    /\ hasCleanup = TRUE
    /\ removed = {}
    /\ registered = EffectListeners
    /\ dotLeft = <<>>
    /\ dotTop = <<>>
    /\ outlineAnim = <<>>
    /\ hovered = FALSE
    /\ pointer = NoPointer
    /\ sawHover = FALSE
    /\ movedSinceMount = FALSE

(***************************************************************************)
(* FAQItem                                                                 *)
(***************************************************************************)
\* <FAQItem index={0..3} /> in FAQ
NumFaq == 4

FaqIds == 1..NumFaq

\* variant: the click only opens
ToggleOpensOnly(renderedIsOpen) == TRUE

\* !isOpen, with isOpen the value the click handler closed over
Toggle(renderedIsOpen) == ~renderedIsOpen

\* variant: an accordion that closes the other items when one is clicked
ClickFaqExclusive(j) ==
    /\ faqClicks[j] < MaxClicks
    /\ faqClicks' = [faqClicks EXCEPT ![j] = @ + 1]
    /\ faqIsOpen' = [k \in FaqIds |-> IF k = j THEN Toggle(faqRendered[j]) ELSE FALSE]
    /\ faqRendered' = faqIsOpen'
    /\ UNCHANGED <<formVars, revealVars, cursorVars, navVars>>

\* onClick={() => setIsOpen(!isOpen)}; React re-renders the item before the
\* next event is dispatched
ClickFaq(j) ==
    /\ faqClicks[j] < MaxClicks
    /\ faqClicks' = [faqClicks EXCEPT ![j] = @ + 1]
    /\ faqIsOpen' = [faqIsOpen EXCEPT ![j] = Toggle(faqRendered[j])]
    /\ faqRendered' = [faqRendered EXCEPT ![j] = faqIsOpen'[j]]
    /\ UNCHANGED <<formVars, revealVars, cursorVars, navVars>>

\* the answer has the classes 'max-h-48 opacity-100 pb-6' (and not
\* 'max-h-0 opacity-0')
Expanded(j) == faqRendered[j]

InitFaq ==
    /\ faqIsOpen = [j \in FaqIds |-> FALSE]
    /\ faqRendered = [j \in FaqIds |-> FALSE]
    /\ faqClicks = [j \in FaqIds |-> 0]

(***************************************************************************)
(* Navbar and the buttons that scroll to a section                         *)
(***************************************************************************)
\* window.scrollY > 20
ScrollThreshold == 20

\* scroll positions the model tells apart
ScrollPositions == {0, ScrollThreshold, ScrollThreshold + 1}

\* variant: App without <Team />
AppChildrenWithoutTeam ==
    {"CustomCursor", "Navbar", "Hero", "InfiniteMarquee", "Services", "WhyChooseUs",
     "Results", "Partners", "Portfolio", "Feedbacks", "Methodology", "FAQ",
     "ContactForm", "Footer", "WhatsAppButton"}

\* the components App renders, all of them unconditionally
AppChildren ==
    {"CustomCursor", "Navbar", "Hero", "InfiniteMarquee", "Services", "WhyChooseUs",
     "Results", "Partners", "Portfolio", "Team", "Feedbacks", "Methodology", "FAQ",
     "ContactForm", "Footer", "WhatsAppButton"}

\* the id of the <section> a component returns, "" when it carries no id
SectionIdOf(component) ==
    CASE component = "Services"    -> "solucoes"
      [] component = "WhyChooseUs" -> "diferenciais"
      [] component = "Portfolio"   -> "imoveis"
      [] component = "Results"     -> "resultados"
      [] component = "Team"        -> "sobre"
      [] component = "Feedbacks"   -> "feedback"
      [] component = "ContactForm" -> "contato"
      [] OTHER                     -> ""

\* ids of the <section> elements App renders: solucoes, diferenciais, imoveis,
\* resultados, sobre, feedback, contato
SectionIds == { SectionIdOf(c) : c \in AppChildren } \ {""}

\* navItems and the 'contato' button
NavTargets == {"solucoes", "diferenciais", "imoveis", "sobre", "feedback", "contato"}

\* targets of the scroll buttons of Hero and Methodology
ButtonTargets == {"contato", "solucoes"}

\* an id that no element of the document carries
AbsentId == "inexistente"

\* ids scrollToSection is applied to: those the Navbar passes and an absent one
CallIds == NavTargets \cup {AbsentId}

\* variant: the style follows scrolled only
NavIsGlassScrolledOnly(isScrolled, menuOpen) == isScrolled

\* scrolled || mobileMenuOpen ? "glass-nav py-4 md:py-6" : "bg-transparent py-8"
NavIsGlass(isScrolled, menuOpen) == isScrolled \/ menuOpen

\* mobileMenuOpen ? 'translate-x-0' : 'translate-x-full'
OverlayIsShown(menuOpen) == menuOpen

\* the render React commits after a state update of Navbar
RenderNavbar ==
    /\ glassNav' = NavIsGlass(scrolled', mobileMenuOpen')
    /\ overlayShown' = OverlayIsShown(mobileMenuOpen')

\* the user scrolls, or a smooth scroll proceeds
WindowScroll(y) ==
    /\ y # scrollY
    /\ scrollY' = y
    /\ scrollPending' = TRUE
    /\ UNCHANGED <<scrolled, mobileMenuOpen, scrollTarget, glassNav, overlayShown,
                   navEvent, scrollLog, menuSeen>>
    /\ UNCHANGED <<formVars, revealVars, cursorVars, faqVars>>

\* variant: the comparison is >=
HandleScrollAtLeast ==
    /\ scrollPending
    /\ scrollPending' = FALSE
    /\ scrolled' = (scrollY >= ScrollThreshold)
    /\ scrollLog' = IF scrolled' \/ scrollLog = "scrolled" THEN "scrolled" ELSE "handled"
    /\ UNCHANGED <<mobileMenuOpen, scrollY, scrollTarget, navEvent, menuSeen>>
    /\ RenderNavbar
    /\ UNCHANGED <<formVars, revealVars, cursorVars, faqVars>>

\* const handleScroll = () => setScrolled(window.scrollY > 20), run when the
\* browser dispatches the scroll event; it reads the position of that moment
HandleScroll ==
    /\ scrollPending
    /\ scrollPending' = FALSE
    /\ scrolled' = (scrollY > ScrollThreshold)
    /\ scrollLog' = IF scrolled' \/ scrollLog = "scrolled" THEN "scrolled" ELSE "handled"
    /\ UNCHANGED <<mobileMenuOpen, scrollY, scrollTarget, navEvent, menuSeen>>
    /\ RenderNavbar
    /\ UNCHANGED <<formVars, revealVars, cursorVars, faqVars>>

\* variant: the menu is closed outside the if
ScrollToSectionAlwaysCloses(id) ==
    /\ IF id \in SectionIds
       THEN scrollTarget' = id
       ELSE UNCHANGED scrollTarget
    /\ mobileMenuOpen' = FALSE
    /\ navEvent' = <<"scrollToSection", id>>
    /\ menuSeen' = IF mobileMenuOpen THEN "open" ELSE "closed"
    /\ UNCHANGED <<scrolled, scrollY, scrollPending, scrollLog>>
    /\ RenderNavbar
    /\ UNCHANGED <<formVars, revealVars, cursorVars, faqVars>>

\* scrollToSection(id): const element = document.getElementById(id);
\* if (element) { element.scrollIntoView(...); setMobileMenuOpen(false); }
ScrollToSection(id) ==
    /\ IF id \in SectionIds
       THEN /\ scrollTarget' = id
            /\ mobileMenuOpen' = FALSE
       ELSE UNCHANGED <<scrollTarget, mobileMenuOpen>>
    /\ navEvent' = <<"scrollToSection", id>>
    /\ menuSeen' = IF mobileMenuOpen THEN "open" ELSE "closed"
    /\ UNCHANGED <<scrolled, scrollY, scrollPending, scrollLog>>
    /\ RenderNavbar
    /\ UNCHANGED <<formVars, revealVars, cursorVars, faqVars>>

\* onClick={() => setMobileMenuOpen(!mobileMenuOpen)}; React re-renders
\* before the next click, so the handler sees the current value
ClickHamburger ==
    /\ mobileMenuOpen' = ~mobileMenuOpen
    /\ navEvent' = <<"hamburger", IF mobileMenuOpen THEN "open" ELSE "closed">>
    /\ UNCHANGED <<scrolled, scrollY, scrollPending, scrollTarget, scrollLog, menuSeen>>
    /\ RenderNavbar
    /\ UNCHANGED <<formVars, revealVars, cursorVars, faqVars>>

\* onClick={() => window.scrollTo({ top: 0, behavior: 'smooth' })}
ClickLogo ==
    /\ scrollTarget' = "top"
    /\ UNCHANGED <<scrolled, mobileMenuOpen, scrollY, scrollPending, glassNav,
                   overlayShown, navEvent, scrollLog, menuSeen>>
    /\ UNCHANGED <<formVars, revealVars, cursorVars, faqVars>>

\* onClick={() => document.getElementById(id)?.scrollIntoView(...)}
ClickScrollButton(id) ==
    /\ IF id \in SectionIds
       THEN scrollTarget' = id
       ELSE UNCHANGED scrollTarget
    /\ UNCHANGED <<scrolled, mobileMenuOpen, scrollY, scrollPending, glassNav,
                   overlayShown, navEvent, scrollLog, menuSeen>>
    /\ UNCHANGED <<formVars, revealVars, cursorVars, faqVars>>

\* after the first render and the effect of Navbar, the document being at
\* scroll position y (a reload restores the position): useState(false) twice,
\* the scroll listener is registered and no scroll event is waiting
InitNavAt(y) ==
    /\ scrolled = FALSE
    /\ mobileMenuOpen = FALSE
    /\ scrollY = y
    /\ scrollPending = FALSE
    /\ scrollTarget = "none"
    /\ glassNav = NavIsGlass(FALSE, FALSE)
    /\ overlayShown = OverlayIsShown(FALSE)
    /\ navEvent = <<"none", "">>
    /\ scrollLog = "none"
    /\ menuSeen = "none"

\* the page loaded at the top
InitNav == InitNavAt(0)

(***************************************************************************)
(* Specifications                                                          *)
(***************************************************************************)
vars == <<formVars, revealVars, cursorVars, faqVars, navVars>>

Init == InitForm /\ InitReveal /\ InitCursor /\ InitFaq /\ InitNav

NextForm ==
    \/ \E f \in FieldNames : \E v \in ControlValues(f) : HandleChange(f, v)
    \/ HandleSubmit

SpecForm == Init /\ [][NextForm]_vars

NextReveal ==
    \/ \E i \in RevealIds : ViewportChange(i)
    \/ \E i \in RevealIds : UpdateIntersection(i)
    \/ \E i \in RevealIds : NotifyObserver(i)
    \/ \E i \in RevealIds : RenderReveal(i)
    \/ \E i \in RevealIds : UnmountReveal(i)

SpecReveal == Init /\ [][NextReveal]_vars

NextCursor ==
    \/ MountCursor
    \/ UnmountCursor
    \/ \E p \in Positions : MouseMove(p[1], p[2])

\* any document and any device
InitAnyCursor ==
    /\ InitForm
    /\ InitReveal
    /\ InitFaq
    /\ InitNav
    /\ \E env \in BOOLEAN \X BOOLEAN \X BOOLEAN : InitCursorIn(env)

SpecCursor == InitAnyCursor /\ [][NextCursor]_vars

NextFaq == \E j \in FaqIds : ClickFaq(j)

SpecFaq == Init /\ [][NextFaq]_vars

NextNav ==
    \/ \E y \in ScrollPositions : WindowScroll(y)
    \/ HandleScroll
    \/ \E id \in ButtonTargets : ClickScrollButton(id)
    \/ \E id \in NavTargets : ScrollToSection(id)
    \/ ClickHamburger
    \/ ClickLogo

SpecNav == Init /\ [][NextNav]_vars

\* the Navbar events, the page having loaded at any scroll position
InitAnyScroll ==
    /\ InitForm
    /\ InitReveal
    /\ InitCursor
    /\ InitFaq
    /\ \E y \in ScrollPositions : InitNavAt(y)

SpecScroll == InitAnyScroll /\ [][NextNav]_vars

\* scrollToSection applied to any id, between the other Navbar events
NextScrollTo ==
    \/ \E y \in ScrollPositions : WindowScroll(y)
    \/ HandleScroll
    \/ ClickHamburger
    \/ \E id \in CallIds : ScrollToSection(id)

SpecScrollTo == Init /\ [][NextScrollTo]_vars

\* the whole page, with one value per form control, one RevealOnScroll, one
\* FAQ item, one navigation target and the pointer on the footer row
PageValue(f) == CHOOSE v \in ControlValues(f) : v # <<>>

PagePosition == <<2, 0>>

NextPage ==
    \/ \E f \in FieldNames : HandleChange(f, PageValue(f))
    \/ HandleSubmit
    \/ ViewportChange(1)
    \/ UpdateIntersection(1)
    \/ NotifyObserver(1)
    \/ RenderReveal(1)
    \/ MouseMove(PagePosition[1], PagePosition[2])
    \/ ClickFaq(1)
    \/ WindowScroll(ScrollThreshold + 1)
    \/ HandleScroll
    \/ ClickScrollButton("contato")
    \/ ScrollToSection("contato")
    \/ ClickHamburger
    \/ ClickLogo

\* the page right after load in a desktop browser: the effects of the first
\* render have run, no RevealOnScroll is in the viewport yet
InitPage ==
    /\ InitForm
    /\ InitRevealIn([i \in RevealIds |-> FALSE])
    /\ InitCursorMounted
    /\ InitFaq
    /\ InitNav

SpecPage == InitPage /\ [][NextPage]_vars

(***************************************************************************)
(* Properties of ContactForm                                               *)
(***************************************************************************)
\* the message the page is meant to send for the field values v: the header
\* and then the four labelled lines in the order name, instagram, niche,
\* objective
ExpectedMessage(v) ==
    HeaderLine \o NomeLabel \o v["name"] \o InstagramLabel \o v["instagram"]
        \o AtuacaoLabel \o v["niche"] \o ObjetivoLabel \o v["objective"]

\* "https://wa.me/5519999592852?text="
ExpectedLinkHead ==
    <<104, 116, 116, 112, 115, 58, 47, 47, 119, 97, 46, 109, 101, 47,
      53, 53, 49, 57, 57, 57, 57, 53, 57, 50, 56, 53, 50,
      63, 116, 101, 120, 116, 61>>

\* a submit step: one more window has been opened
SubmitStep == Len(opened') = Len(opened) + 1

LastOpened == opened'[Len(opened')]

\* the part of a link after "?text="
TextOf(url) == SubSeq(url, Len(ExpectedLinkHead) + 1, Len(url))

\* C1: a submit opens, in a new tab, https://wa.me/5519999592852?text=<T>
\* where <T> is the URL-encoding of the message built from the most recent
\* value written to each field by the change events before the submit, in
\* the order name, instagram, niche, objective.
C1_SubmitOpensLink ==
    [][SubmitStep =>
          /\ LastOpened.target = "_blank"
          /\ LastOpened.url
                = ExpectedLinkHead \o encodeURIComponent(ExpectedMessage(written))
      ]_vars

\* two submits happened, with different field values
C1_Witness ==
    /\ Len(opened) = 2
    /\ opened[1].url # opened[2].url

\* number of occurrences of the code point c in str
CountOf(c, str) == Cardinality({i \in 1..Len(str) : str[i] = c})

\* str is made of unreserved characters and %XY escapes only
IsUrlEncoded(str) ==
    \A i \in 1..Len(str) :
        \/ str[i] \in UriUnreserved
        \/ IsEscape(str, i)

\* C2: whatever the field values, the opened link contains exactly one '?',
\* its text parameter holds only unreserved characters and %XY escapes (no
\* '&', '=', '#', '?', space or newline of a field value is left as it is),
\* and decoding the text parameter gives back the message that was built.
C2_TextIsUrlEncoded ==
    [][SubmitStep =>
          /\ CountOf(63, LastOpened.url) = 1
          /\ IsUrlEncoded(TextOf(LastOpened.url))
          /\ decodeURIComponent(TextOf(LastOpened.url)) = ExpectedMessage(written)
      ]_vars

\* a link was opened for a name holding '&' and '=' and an objective holding
\* a newline
C2_Witness ==
    /\ Len(opened) >= 1
    /\ formData["name"] = <<97, 38, 98, 61, 99>>
    /\ formData["objective"] = <<97, 10, 98>>
    /\ opened[Len(opened)].url = BuildLink(formData)

\* C18: a change event on one field sets that field to the new value and
\* leaves the other three as they were; formData always has exactly the keys
\* name, instagram, niche and objective, each holding the last value written
\* to it.
C18_ChangeSetsOneField ==
    /\ [](DOMAIN formData = FieldNames /\ formData = written)
    /\ [][\A f \in FieldNames :
            written'[f] # written[f] =>
                /\ formData'[f] = written'[f]
                /\ \A g \in FieldNames \ {f} : formData'[g] = formData[g]
         ]_vars

\* the four fields hold a value each, the name after having been changed
\* from one value to another with a submit in between
C18_Witness ==
    /\ \A f \in FieldNames : formData[f] # <<>>
    /\ Len(opened) = 1
    /\ changedSinceSubmit
    /\ formData["name"] = <<233, 32, 35, 63>>
    /\ opened[1].url = BuildLink([formData EXCEPT !["name"] = <<97, 38, 98, 61, 99>>])

\* C19: a submit leaves formData as it was, and a submit that follows another
\* with no change event in between opens the same link again.
C19_SubmitKeepsFormData ==
    [][SubmitStep =>
          /\ formData' = formData
          /\ (Len(opened) >= 1 /\ ~changedSinceSubmit) =>
                 LastOpened = opened[Len(opened)]
      ]_vars

\* two submits in a row: the same link was opened twice and the fields still
\* hold their values
C19_Witness ==
    /\ Len(opened) = 2
    /\ opened[1] = opened[2]
    /\ ~changedSinceSubmit
    /\ \A f \in FieldNames : formData[f] # <<>>

\* the messages whose four values are all non-empty
NonEmptyMessages ==
    { ExpectedMessage(v) :
        v \in { w \in [FieldNames -> UNION { ControlValues(f) : f \in FieldNames }] :
                  \A g \in FieldNames : w[g] \in ControlValues(g) \ {<<>>} } }

\* C20: the four controls being required, the submit handler runs only when
\* every field is non-empty, and every link opened carries a message whose
\* name, instagram, niche and objective values are all non-empty.
C20_NoEmptyFieldSubmitted ==
    /\ [](\A k \in 1..Len(opened) :
             decodeURIComponent(TextOf(opened[k].url)) \in NonEmptyMessages)
    /\ [][SubmitStep => \A f \in FieldNames : formData[f] # <<>>]_vars

\* after a submit the name was cleared: three fields are filled, the name is
\* empty, and no second link has been opened
C20_Witness ==
    /\ Len(opened) = 1
    /\ submits = 1
    /\ formData["name"] = <<>>
    /\ \A f \in FieldNames \ {"name"} : formData[f] # <<>>
    /\ changedSinceSubmit

(***************************************************************************)
(* Properties of RevealOnScroll                                            *)
(***************************************************************************)
\* a render of i is waiting to be committed
RenderPending(i) == revealMounted[i] /\ active[i] # isVisible[i]

\* C4: isVisible starts false, becomes true at the first callback whose
\* entry is intersecting, and once true it is never set back to false.
C4_VisibleLatches ==
    /\ [](\A i \in RevealIds : isVisible[i] <=> firstHit[i])
    /\ [][\A i \in RevealIds : isVisible[i] => isVisible'[i]]_vars

\* i is visible although its div has left the viewport again
C4_Witness ==
    \E i \in RevealIds :
        /\ revealMounted[i]
        /\ isVisible[i]
        /\ active[i]
        /\ ~inView[i]

\* neither the browser nor React has anything left to do for i: no entry is
\* queued, the last observation matches the viewport, no render is pending
Settled(i) ==
    /\ queued[i] = <<>>
    /\ observing[i] => prevInter[i] = IntersectionOf(inView[i])
    /\ ~RenderPending(i)

\* C5: once the observer has reported the div of a mounted component as
\* intersecting, the div eventually gets the class "active", so it has it
\* whenever nothing is left to be done for the component; before that report
\* it never has it.
C5_ReportedBecomesActive ==
    \A i \in RevealIds :
        /\ active[i] => reported[i]
        /\ (reported[i] /\ revealMounted[i] /\ Settled(i)) => active[i]

\* C10: the callback that sets isVisible to true also disconnects the
\* observer, at most one callback changes the state, and a callback whose
\* entry is not intersecting changes nothing and leaves the observer
\* connected.
C10_DisconnectOnReveal ==
    /\ [](\A i \in RevealIds : stateChanges[i] <= 1)
    /\ [][\A i \in RevealIds :
            (revealMounted[i] /\ NotifyObserver(i)) =>
                IF queued[i][1]
                THEN isVisible'[i] /\ ~observing'[i]
                ELSE /\ isVisible'[i] = isVisible[i]
                     /\ observing'[i] = observing[i]
                     /\ active' = active
         ]_vars

\* one component was revealed by its callback and is disconnected, another
\* got a callback with a non-intersecting entry and is still observed
C10_Witness ==
    \E i, j \in RevealIds :
        /\ revealMounted[i] /\ stateChanges[i] = 1 /\ ~observing[i]
        /\ ~firstHit[j] /\ observing[j] /\ prevInter[j] = "no" /\ queued[j] = <<>>

\* C11: in every interleaving of an intersection callback and the unmount,
\* the observer is disconnected once the component is unmounted (also when
\* the callback had disconnected it before), and no callback calls
\* setIsVisible after the unmount.
C11_NoUpdateAfterUnmount ==
    \A i \in RevealIds :
        /\ ~revealMounted[i] => ~observing[i]
        /\ ~lateSets[i]

\* C12: the components are independent: a callback of one component leaves
\* isVisible, the class, the observer and the queued entries of every other
\* component unchanged, whatever the other components' state and whichever
\* component is revealed first.
C12_InstancesIndependent ==
    [][\A i \in RevealIds :
          NotifyObserver(i) =>
              \A j \in RevealIds \ {i} :
                  /\ isVisible'[j] = isVisible[j]
                  /\ active'[j] = active[j]
                  /\ observing'[j] = observing[j]
                  /\ prevInter'[j] = prevInter[j]
                  /\ queued'[j] = queued[j]
      ]_vars

\* the second component has been revealed by its callback while the first,
\* also in the viewport and still observed, has not
C12_Witness ==
    /\ revealMounted[1] /\ revealMounted[2]
    /\ isVisible[2] /\ firstHit[2] /\ ~observing[2]
    /\ ~isVisible[1] /\ inView[1] /\ observing[1]

(***************************************************************************)
(* Properties of CustomCursor                                              *)
(***************************************************************************)
\* C6: when .cursor-dot or .cursor-outline is missing at mount, nothing is
\* registered, no mouse event changes any cursor state, and the unmount
\* removes nothing.
C6_MissingElementDoesNothing ==
    (~dotPresent \/ ~outlinePresent) =>
        /\ listeners = {}
        /\ ~hasCleanup
        /\ removed = {}
        /\ dotLeft = <<>>
        /\ dotTop = <<>>
        /\ outlineAnim = <<>>
        /\ ~hovered

\* the outline is missing, the component was mounted and unmounted, and the
\* pointer is over the link of the footer
C6_Witness ==
    /\ dotPresent
    /\ ~outlinePresent
    /\ cursorPhase = "unmounted"
    /\ movedSinceMount
    /\ pointer \in Cells("a")

\* C7: after any sequence of mouseenter and mouseleave events on the
\* registered elements, nested ones included, the outline has the class
\* 'hovered' exactly when the pointer is inside at least one registered
\* element.
C7_HoveredIffInside ==
    (CursorEnabled /\ cursorPhase = "mounted" /\ sawHover) =>
        (hovered <=> (Under(pointer) \cap interactiveElements # {}))

\* the number written before "px", -1 when the string is not of that form
PxValue(str) ==
    IF /\ Len(str) >= 3
       /\ SubSeq(str, Len(str) - 1, Len(str)) = <<112, 120>>
       /\ \A k \in 1..(Len(str) - 2) : str[k] \in 48..57
    THEN LET digits == SubSeq(str, 1, Len(str) - 2)
             Weight[k \in 0..Len(digits)] == IF k = 0 THEN 1 ELSE 10 * Weight[k - 1]
             Sum[k \in 0..Len(digits)] ==
                 IF k = 0 THEN 0
                 ELSE Sum[k - 1] + (digits[k] - 48) * Weight[Len(digits) - k]
         IN  Sum[Len(digits)]
    ELSE -1

\* C8: on a non-touch device with both cursor elements, once the pointer has
\* moved the dot's left and top are the clientX and clientY of the last
\* mousemove event.
C8_DotFollowsPointer ==
    (CursorEnabled /\ cursorPhase = "mounted" /\ movedSinceMount) =>
        /\ PxValue(dotLeft) = pointer[1]
        /\ PxValue(dotTop) = pointer[2]

\* the pointer moved to <<2, 1>> after having been elsewhere
C8_Witness ==
    /\ CursorEnabled
    /\ cursorPhase = "mounted"
    /\ movedSinceMount
    /\ pointer = <<2, 1>>
    /\ dotLeft = <<50, 112, 120>>
    /\ dotTop = <<49, 112, 120>>
    /\ sawHover

\* C13: on a touch device no listener is ever registered and no mouse event
\* changes the dot position, the outline animation or the 'hovered' class,
\* also when both cursor elements exist.
C13_TouchDeviceDoesNothing ==
    isTouchDevice =>
        /\ listeners = {}
        /\ registered = {}
        /\ ~hasCleanup
        /\ dotLeft = <<>>
        /\ dotTop = <<>>
        /\ outlineAnim = <<>>
        /\ ~hovered

\* a touch device with both elements: the component is mounted and the
\* pointer has moved onto the link of the footer
C13_Witness ==
    /\ isTouchDevice
    /\ dotPresent
    /\ outlinePresent
    /\ cursorPhase = "mounted"
    /\ movedSinceMount
    /\ pointer \in Cells("a")

\* C14: after the unmount every listener the effect registered has been
\* removed (the removed set is the registered set and none is left), and no
\* mouse event after the unmount changes the dot position, the outline
\* animation or the 'hovered' class.
C14_NoListenerLeak ==
    /\ [](cursorPhase = "unmounted" =>
            /\ listeners = {}
            /\ removed = registered)
    /\ [][cursorPhase = "unmounted" =>
            /\ dotLeft' = dotLeft
            /\ dotTop' = dotTop
            /\ outlineAnim' = outlineAnim
            /\ hovered' = hovered
         ]_vars

\* listeners were registered and removed, and after the unmount the pointer
\* moved onto the link of the footer: the dot is where the last move before
\* the unmount left it and the outline is not hovered
C14_Witness ==
    /\ cursorPhase = "unmounted"
    /\ registered # {}
    /\ removed = registered
    /\ pointer \in Cells("a")
    /\ ~hovered
    /\ dotLeft # <<>>
    /\ PxValue(dotLeft) # pointer[1]

(***************************************************************************)
(* Properties of the page as a whole                                       *)
(***************************************************************************)
\* C3: whatever the page events, a window is opened only by a form submit
\* and exactly once per submit.
C3_OnlySubmitOpens ==
    /\ [](Len(opened) = submits)
    /\ [][opened' # opened =>
            /\ HandleSubmit
            /\ Len(opened') = Len(opened) + 1
            /\ SubSeq(opened', 1, Len(opened)) = opened
         ]_vars

\* one submit has opened one link, and scroll, navigation, hamburger, FAQ,
\* mouse and observer events have all happened
C3_Witness ==
    /\ submits = 1
    /\ Len(opened) = 1
    /\ scrolled
    /\ scrollTarget = "top"
    /\ mobileMenuOpen
    /\ faqIsOpen[1]
    /\ hovered
    /\ dotLeft # <<>>
    /\ isVisible[1]

(***************************************************************************)
(* Properties of FAQItem                                                   *)
(***************************************************************************)
\* C9: isOpen starts false, every click flips it, the answer is expanded
\* exactly when isOpen is true, and after an even number of clicks the item
\* is closed again.
C9_FaqToggle ==
    \A j \in FaqIds :
        /\ faqIsOpen[j] <=> (faqClicks[j] % 2 = 1)
        /\ Expanded(j) <=> faqIsOpen[j]

\* an item was clicked twice and is closed, another once and is open
C9_Witness ==
    \E j, k \in FaqIds :
        /\ faqClicks[j] = 2 /\ ~faqIsOpen[j] /\ ~Expanded(j)
        /\ faqClicks[k] = 1 /\ faqIsOpen[k] /\ Expanded(k)

\* C17: a click on one item leaves the open state and the rendering of
\* every other item unchanged, so opening one never closes another and the
\* four items can be open together.
C17_FaqItemsIndependent ==
    [][\A j \in FaqIds :
          faqClicks'[j] # faqClicks[j] =>
              \A k \in FaqIds \ {j} :
                  /\ faqIsOpen'[k] = faqIsOpen[k]
                  /\ faqRendered'[k] = faqRendered[k]
      ]_vars

\* the four items are open at the same time, the first one after having
\* been opened, closed and opened again
C17_Witness ==
    /\ \A j \in FaqIds : faqIsOpen[j] /\ Expanded(j)
    /\ faqClicks[1] = 3

(***************************************************************************)
(* Properties of Navbar                                                    *)
(***************************************************************************)
\* the step is a run of scrollToSection(id)
ScrollToSectionStep(id) ==
    /\ navEvent' = <<"scrollToSection", id>>
    /\ <<navEvent, scrollTarget, mobileMenuOpen>>' # <<navEvent, scrollTarget, mobileMenuOpen>>

\* C15: scrollToSection with an id some element carries scrolls to that
\* element and closes the mobile menu; with an id no element carries it
\* scrolls nowhere and leaves mobileMenuOpen, and so the overlay, as it was.
C15_ScrollToSection ==
    [][\A id \in CallIds :
          ScrollToSectionStep(id) =>
              IF id \in SectionIds
              THEN /\ scrollTarget' = id
                   /\ ~mobileMenuOpen'
                   /\ ~overlayShown'
              ELSE /\ scrollTarget' = scrollTarget
                   /\ mobileMenuOpen' = mobileMenuOpen
                   /\ overlayShown' = overlayShown
      ]_vars

\* after a click that scrolled to a section the menu was opened again, and a
\* call with the absent id has left it open
C15_Witness ==
    /\ navEvent = <<"scrollToSection", AbsentId>>
    /\ mobileMenuOpen
    /\ overlayShown
    /\ scrollTarget \in NavTargets

\* C16: mobileMenuOpen starts false and every click on the hamburger button
\* flips it; the overlay is shown exactly when it is true, and the <nav> has
\* the "glass-nav" style exactly when scrolled or mobileMenuOpen is true.
C16_MenuToggle ==
    /\ ~mobileMenuOpen
    /\ [](overlayShown <=> mobileMenuOpen)
    /\ [](glassNav <=> (scrolled \/ mobileMenuOpen))
    /\ [][(navEvent' # navEvent /\ navEvent'[1] = "hamburger") =>
              mobileMenuOpen' = ~mobileMenuOpen
         ]_vars

\* the menu was closed by a click on the hamburger button, and the page is
\* scrolled, so the bar keeps the style
C16_Witness ==
    /\ navEvent = <<"hamburger", "open">>
    /\ ~mobileMenuOpen
    /\ ~overlayShown
    /\ scrolled
    /\ glassNav

\* C21: scrolled is false from mount until handleScroll first runs, whatever
\* the scroll position; every run of handleScroll leaves scrolled true
\* exactly when scrollY is greater than 20 (false at exactly 20), so between
\* a scroll event and the next scroll of the page scrolled tells whether
\* scrollY > 20, and it is false again after the page scrolled back.
C21_ScrolledFollowsScrollY ==
    /\ [](scrollLog = "none" => ~scrolled)
    /\ []((scrollLog # "none" /\ ~scrollPending) =>
            (scrolled <=> scrollY > ScrollThreshold))
    /\ [][(scrollPending /\ ~scrollPending') =>
            (scrolled' <=> scrollY' > ScrollThreshold)
         ]_vars

\* scrolled has been true, the page scrolled back to exactly 20 and the
\* scroll event was handled: scrolled is false again
C21_Witness ==
    /\ scrollLog = "scrolled"
    /\ scrollY = ScrollThreshold
    /\ ~scrollPending
    /\ ~scrolled
    /\ ~glassNav

\* C22: every id the Navbar passes to scrollToSection is the id of a section
\* App renders, so in the page a click on an entry of the menu always scrolls
\* to its section and closes the menu: the menu is never open right after
\* such a click.
C22_NavTargetsExist ==
    /\ [](NavTargets \subseteq SectionIds)
    /\ [](navEvent[1] = "scrollToSection" => (~mobileMenuOpen /\ ~overlayShown))
    /\ [][\A id \in NavTargets :
            (ScrollToSectionStep(id) /\ mobileMenuOpen) =>
                /\ scrollTarget' = id
                /\ ~mobileMenuOpen'
                /\ ~overlayShown'
         ]_vars

\* the entry 'Sobre' was clicked while the menu was open: the page scrolls to
\* that section and the menu is closed
C22_Witness ==
    /\ navEvent = <<"scrollToSection", "sobre">>
    /\ menuSeen = "open"
    /\ scrollTarget = "sobre"
    /\ ~mobileMenuOpen
    /\ ~overlayShown

====
